---- MODULE Spec2Model ----
(***************************************************************************)
(* Model of the bulk ingestion endpoint of app/routers/abastecimentos.py   *)
(* (bulk_create_abastecimentos) together with the storage session it       *)
(* drives.                                                                 *)
(*                                                                         *)
(* A call owns one AsyncSession (Depends(get_db_session)).  The session is *)
(* modelled as SQLAlchemy documents it:                                    *)
(*   - the identity map keeps the first loaded copy of a Produto; later    *)
(*     selects of the same row return that same object;                    *)
(*   - flush() writes the pending INSERT and the dirty Produto to the      *)
(*     session's transaction; the rows become durable at commit();         *)
(*   - a failed flush() rolls the whole transaction back and leaves the    *)
(*     session inactive: every later statement and commit() raise until    *)
(*     rollback() is called;                                               *)
(*   - a failed execute() raises and leaves the transaction as it was.     *)
(* The database gives read-committed isolation: a session reads committed  *)
(* rows plus its own uncommitted ones, and a row updated by an open        *)
(* transaction cannot be updated by another one until the first ends.      *)
(*                                                                         *)
(* Timestamps assigned by the server are one value, ServerNow, distinct    *)
(* from every timestamp a client claims.  The free-text observacao is      *)
(* copied to the row and read by nothing.                                  *)
(***************************************************************************)
EXTENDS Integers, Sequences, FiniteSets, TLC

\* ------------------------------------------------------------- bounds
MaxCalls == 2
MaxBatch == 2
MaxFaults == 1
MaxBatchConc == 2
MaxBatchOne == 3

Sessions == 1..MaxCalls

\* ------------------------------------------------------------- values
None == "None"
ServerNow == "now"

\* Strings uuid.UUID() accepts; "bad" is one it rejects with ValueError.
UuidStrings == {"id1", "id2", "idX", "u1"}

\* The catalog (table produtos): id -> codigo.  The endpoint never adds or
\* removes a product.
Products == {"id1", "id2"}
Codigo(p) == IF p = "id1" THEN "c1" ELSE "c2"
InitEstoque(p) == IF p = "id1" THEN 3 ELSE 0
InitUpdatedAt == <<0, 0>>

\* AbastecimentoIn; an optional number is <<>> or <<n>>.
AbastecimentoIn(lid, pid, cod, uid, q, cu, tc, ts) ==
    [local_id |-> lid, produto_id |-> pid, produto_codigo |-> cod,
     usuario_id |-> uid, quantidade |-> q, custo_unitario |-> cu,
     total_custo |-> tc, observacao |-> None, created_at |-> ts]

Base == AbastecimentoIn("L1", "id1", None, None, 1, 2, <<>>, "T1")

\* The records a client may submit: Base and records that differ from it in
\* the token, the product reference, the note, the key fields or the
\* timestamp.
Items ==
    { Base,
      [Base EXCEPT !.local_id = None],
      [Base EXCEPT !.local_id = "L2", !.produto_id = "bad", !.produto_codigo = "c1",
                   !.observacao = "obs"],
      [Base EXCEPT !.produto_id = "idX"],
      [Base EXCEPT !.produto_id = None],
      [Base EXCEPT !.produto_id = None, !.produto_codigo = "c2"],
      [Base EXCEPT !.produto_codigo = "c2"],
      [Base EXCEPT !.usuario_id = "u1", !.quantidade = 2, !.total_custo = <<5>>],
      [Base EXCEPT !.created_at = None] }

\* Records of overlapping calls: one product, with and without a timestamp,
\* and an unknown product.
ConcItems ==
    { Base,
      [Base EXCEPT !.local_id = "L2", !.quantidade = 2],
      [Base EXCEPT !.created_at = None],
      [Base EXCEPT !.produto_id = "idX"] }

SeqsUpTo(S, n) == UNION { [1..k -> S] : k \in 0..n }
Batches == SeqsUpTo(Items, MaxBatch)
ConcBatches == SeqsUpTo(ConcItems, MaxBatchConc)
LongBatches == SeqsUpTo(Items, MaxBatchOne)

\* ------------------------------------------------------------- state
VARIABLES
    ledger,       \* committed rows of table abastecimentos, in commit order
    produtos,     \* committed table produtos: id -> [estoque, updated_at]
    pc,           \* per call: where the handler stands
    payload,      \* per call: payload.items
    produto_obj,  \* per call: the product the current record resolved to
    identity,     \* per session: identity map, id -> loaded Produto object
    txRows,       \* per session: rows flushed and not yet committed
    txProdutos,   \* per session: Produto rows updated and not yet committed
    active,       \* per session: FALSE after a failed flush
    inserted,     \* per call: the counter inserted
    accepted,     \* per call: the list accepted
    conflicts,    \* per call: the list conflicts
    out,          \* history: per call, the outcome of each processed record
    note,         \* history: per call, a fault the current record survived,
                  \* or "finish" when the final statement raised
    faults,       \* history: storage faults so far
    snap          \* history: per call, the committed state when it began

vars == <<ledger, produtos, pc, payload, produto_obj, identity, txRows,
          txProdutos, active, inserted, accepted, conflicts, out, note, faults,
          snap>>

dbVars == <<ledger, produtos>>
sessVars == <<identity, txRows, txProdutos, active>>
reportVars == <<inserted, accepted, conflicts>>

Empty == [x \in {} |-> x]

Init ==
    /\ ledger = <<>>
    /\ produtos = [p \in Products |->
                     [estoque |-> InitEstoque(p), updated_at |-> InitUpdatedAt]]
    /\ pc = [s \in Sessions |-> "idle"]
    /\ payload = [s \in Sessions |-> <<>>]
    /\ produto_obj = [s \in Sessions |-> None]
    /\ identity = [s \in Sessions |-> Empty]
    /\ txRows = [s \in Sessions |-> <<>>]
    /\ txProdutos = [s \in Sessions |-> Empty]
    /\ active = [s \in Sessions |-> TRUE]
    /\ inserted = [s \in Sessions |-> 0]
    /\ accepted = [s \in Sessions |-> <<>>]
    /\ conflicts = [s \in Sessions |-> <<>>]
    /\ out = [s \in Sessions |-> <<>>]
    /\ note = [s \in Sessions |-> "none"]
    /\ faults = 0
    /\ snap = [s \in Sessions |-> [ledger |-> <<>>, produtos |-> produtos]]

\* ------------------------------------------------------------- helpers
\* uuid.UUID(text) succeeds
WellFormed(text) == text \in UuidStrings

\* select(Produto).where(Produto.id == pid), scalar_one_or_none
ProdutoById(pid) == IF pid \in Products THEN pid ELSE None

\* select(Produto).where(Produto.codigo == codigo), scalar_one_or_none
ProdutoByCodigo(codigo) ==
    IF \E p \in Products : Codigo(p) = codigo
    THEN CHOOSE p \in Products : Codigo(p) = codigo
    ELSE None

\* Mutant: the code is looked up before the identifier.
ResolveProdutoCodeFirst(item) ==
    LET byCode == IF item.produto_codigo # None
                  THEN ProdutoByCodigo(item.produto_codigo)
                  ELSE None
    IN  IF byCode # None THEN byCode
        ELSE IF item.produto_id # None /\ WellFormed(item.produto_id)
             THEN ProdutoById(item.produto_id)
             ELSE None

\* The product a record resolves to, or None.
ResolveProduto(item) ==
    LET byId == IF item.produto_id # None /\ WellFormed(item.produto_id)
                THEN ProdutoById(item.produto_id)
                ELSE None
    IN  IF byId # None THEN byId
        ELSE IF item.produto_codigo # None
             THEN ProdutoByCodigo(item.produto_codigo)
             ELSE None

\* Resolving the record sends at least one statement to the session.
TouchesStorage(item) ==
    \/ item.produto_id # None /\ WellFormed(item.produto_id)
    \/ item.produto_codigo # None

UsuarioUuid(item) ==
    IF item.usuario_id # None /\ WellFormed(item.usuario_id)
    THEN item.usuario_id
    ELSE None

\* Mutant: a supplied total_custo is ignored.
TotalCustoComputed(item) == item.quantidade * item.custo_unitario

\* item.total_custo if item.total_custo is not None else qtd * cu
TotalCusto(item) ==
    IF item.total_custo # <<>>
    THEN item.total_custo[1]
    ELSE item.quantidade * item.custo_unitario

TotalVal(item) == item.quantidade * item.custo_unitario

\* The composite key of the duplicate lookup.
DedupKey(item, p) ==
    [produto_id |-> p, usuario_id |-> UsuarioUuid(item),
     quantidade |-> item.quantidade, custo_unitario |-> item.custo_unitario,
     total_custo |-> TotalCusto(item), created_at |-> item.created_at]

RowKey(row) ==
    [produto_id |-> row.produto_id, usuario_id |-> row.usuario_id,
     quantidade |-> row.quantidade, custo_unitario |-> row.custo_unitario,
     total_custo |-> row.total_custo, created_at |-> row.created_at]

\* Mutant: the lookup compares the product and the timestamp only.
IsDuplicateLoose(rows, key) ==
    \E i \in DOMAIN rows : /\ rows[i].produto_id = key.produto_id
                            /\ rows[i].created_at = key.created_at

\* Mutant: the lookup never finds a row.
IsDuplicateNever(rows, key) == FALSE

\* dup_q.limit(1) finds a row
IsDuplicate(rows, key) == \E i \in DOMAIN rows : RowKey(rows[i]) = key

\* Abastecimento(...); created_at takes the server default.  origin names the
\* record the row was built from (call, position); the program does not read it.
NewAbastecimento(item, p, s, i) ==
    [produto_id |-> p, usuario_id |-> UsuarioUuid(item),
     quantidade |-> item.quantidade, custo_unitario |-> item.custo_unitario,
     total |-> TotalVal(item), total_custo |-> TotalCusto(item),
     observacao |-> item.observacao,
     created_at |-> ServerNow, origin |-> <<s, i>>]

\* Mutant: the stock is replaced by the quantity instead of raised by it.
EstoqueReplaced(estoque, qtd) == qtd

\* produto_obj.estoque = float(estoque or 0) + qtd
Estoque(estoque, qtd) == estoque + qtd

\* Mutant: the transaction is committed whatever was inserted.
CommitAlways(n) == TRUE

\* Mutant: the transaction is committed only when several records were inserted.
CommitWhenSeveral(n) == n > 1

\* if inserted:
CommitDecision(n) == n > 0

NotFoundConflict(item) ==
    [reason |-> "produto_nao_encontrado", produto_id |-> item.produto_id,
     produto_codigo |-> item.produto_codigo]

InternalConflict(item, msg) ==
    [reason |-> "erro_interno", message |-> msg, local_id |-> item.local_id]

\* if item.local_id is not None: accepted.append(str(item.local_id))
Accept(acc, item) ==
    IF item.local_id # None THEN Append(acc, item.local_id) ELSE acc

\* ------------------------------------------------------------- steps
Index(s) == Len(out[s]) + 1
Cur(s) == payload[s][Index(s)]

\* Mutant: the session's queries see committed rows only.
VisibleCommitted(s) == ledger

\* Rows the session's queries see: committed ones and its own.
Visible(s) == ledger \o txRows[s]

\* The for loop moves to the next record, or leaves the loop.
AfterRecord(s) == IF Index(s) < Len(payload[s]) THEN "resolve" ELSE "finish"

Outcome(s, result, fault) ==
    /\ out' = [out EXCEPT ![s] = Append(@, [result |-> result, fault |-> fault])]
    /\ note' = [note EXCEPT ![s] = "none"]
    /\ pc' = [pc EXCEPT ![s] = AfterRecord(s)]
    /\ produto_obj' = [produto_obj EXCEPT ![s] = None]

\* Mutant: a record that fails is also counted as inserted.
RecordFailsCounted(s, msg, fault) ==
    /\ conflicts' = [conflicts EXCEPT ![s] = Append(@, InternalConflict(Cur(s), msg))]
    /\ inserted' = [inserted EXCEPT ![s] = @ + 1]
    /\ UNCHANGED accepted
    /\ Outcome(s, "error", fault)

\* The except clause of the record: a conflict erro_interno.
RecordFails(s, msg, fault) ==
    /\ conflicts' = [conflicts EXCEPT ![s] = Append(@, InternalConflict(Cur(s), msg))]
    /\ UNCHANGED <<inserted, accepted>>
    /\ Outcome(s, "error", fault)

\* inserted += 1 and the token accepted.
RecordInserted(s) ==
    /\ inserted' = [inserted EXCEPT ![s] = @ + 1]
    /\ accepted' = [accepted EXCEPT ![s] = Accept(@, Cur(s))]
    /\ UNCHANGED conflicts
    /\ Outcome(s, "inserted", note[s])

Inject == /\ faults < MaxFaults
          /\ faults' = faults + 1

StartCall(s, batch) ==
    /\ payload' = [payload EXCEPT ![s] = batch]
    /\ pc' = [pc EXCEPT ![s] = IF batch = <<>> THEN "finish" ELSE "resolve"]
    /\ snap' = [snap EXCEPT ![s] = [ledger |-> ledger, produtos |-> produtos]]
    /\ UNCHANGED <<dbVars, sessVars, reportVars, produto_obj, out, note, faults>>

\* The call returned its report.
Returned(s) == pc[s] \in {"committed", "rolled_back"}

\* The call returned its report or answered 500.
Ended(s) == Returned(s) \/ pc[s] = "failed"

\* A call that starts when every earlier call has ended.
Begin(s) ==
    /\ pc[s] = "idle"
    /\ \A t \in Sessions : t < s => Ended(t)
    /\ \E batch \in Batches : StartCall(s, batch)

\* A call that starts while earlier calls may still be running.
BeginConc(s) ==
    /\ pc[s] = "idle"
    /\ \A t \in Sessions : t < s => pc[t] # "idle"
    /\ \E batch \in ConcBatches : StartCall(s, batch)

\* A call that starts when every earlier call has ended or was cancelled.
BeginAfter(s) ==
    /\ pc[s] = "idle"
    /\ \A t \in Sessions : t < s => (Ended(t) \/ pc[t] = "cancelled")
    /\ \E batch \in ConcBatches : StartCall(s, batch)

\* The first call, with a longer batch.
BeginOne(s) ==
    /\ s = 1
    /\ pc[s] = "idle"
    /\ \E batch \in LongBatches : StartCall(s, batch)

\* Mutant: the duplicate lookup runs for every record.
ResolveFoundAlwaysDedup(s) ==
    /\ pc[s] = "resolve"
    /\ active[s]
    /\ ResolveProduto(Cur(s)) # None
    /\ LET p == ResolveProduto(Cur(s))
       IN  /\ produto_obj' = [produto_obj EXCEPT ![s] = p]
           /\ identity' = [identity EXCEPT ![s] =
                 IF p \in DOMAIN @ THEN @ ELSE (p :> produtos[p]) @@ @]
    /\ pc' = [pc EXCEPT ![s] = "dedup"]
    /\ UNCHANGED <<dbVars, payload, txRows, txProdutos, active, reportVars, out,
                   note, faults, snap>>

\* Lines 136-146 with a product found: the object comes from the identity
\* map when the session has loaded the row before, from the committed row
\* otherwise.
ResolveFound(s) ==
    /\ pc[s] = "resolve"
    /\ active[s]
    /\ ResolveProduto(Cur(s)) # None
    /\ LET p == ResolveProduto(Cur(s))
       IN  /\ produto_obj' = [produto_obj EXCEPT ![s] = p]
           /\ identity' = [identity EXCEPT ![s] =
                 IF p \in DOMAIN @ THEN @ ELSE (p :> produtos[p]) @@ @]
    /\ pc' = [pc EXCEPT ![s] = IF Cur(s).created_at # None THEN "dedup" ELSE "flush"]
    /\ UNCHANGED <<dbVars, payload, txRows, txProdutos, active, reportVars, out,
                   note, faults, snap>>

\* Mutant: an unknown product ends the loop.
ResolveNotFoundBreaks(s) ==
    /\ pc[s] = "resolve"
    /\ active[s] \/ ~TouchesStorage(Cur(s))
    /\ ResolveProduto(Cur(s)) = None
    /\ conflicts' = [conflicts EXCEPT ![s] = Append(@, NotFoundConflict(Cur(s)))]
    /\ out' = [out EXCEPT ![s] = Append(@, [result |-> "not_found", fault |-> "none"])]
    /\ pc' = [pc EXCEPT ![s] = "finish"]
    /\ UNCHANGED <<dbVars, payload, produto_obj, sessVars, inserted, accepted,
                   note, faults, snap>>

\* Lines 148-154: no product by either path.
ResolveNotFound(s) ==
    /\ pc[s] = "resolve"
    /\ active[s] \/ ~TouchesStorage(Cur(s))
    /\ ResolveProduto(Cur(s)) = None
    /\ conflicts' = [conflicts EXCEPT ![s] = Append(@, NotFoundConflict(Cur(s)))]
    /\ Outcome(s, "not_found", "none")
    /\ UNCHANGED <<dbVars, payload, sessVars, inserted, accepted, faults, snap>>

\* A lookup on a session whose flush failed raises; the record fails.
ResolveRaises(s) ==
    /\ pc[s] = "resolve"
    /\ ~active[s]
    /\ TouchesStorage(Cur(s))
    /\ RecordFails(s, "pending rollback", "inactive")
    /\ UNCHANGED <<dbVars, payload, sessVars, faults, snap>>

\* A storage fault in a product lookup.
FaultResolve(s) ==
    /\ pc[s] = "resolve"
    /\ active[s]
    /\ TouchesStorage(Cur(s))
    /\ Inject
    /\ RecordFails(s, "storage fault", "resolve")
    /\ UNCHANGED <<dbVars, payload, sessVars, snap>>

\* Lines 174-197: the lookup finds an equal row.
DedupHit(s) ==
    /\ pc[s] = "dedup"
    /\ IsDuplicate(Visible(s), DedupKey(Cur(s), produto_obj[s]))
    /\ accepted' = [accepted EXCEPT ![s] = Accept(@, Cur(s))]
    /\ Outcome(s, "duplicate", "none")
    /\ UNCHANGED <<dbVars, payload, sessVars, inserted, conflicts, faults, snap>>

\* Lines 174-194: the lookup finds nothing.
DedupMiss(s) ==
    /\ pc[s] = "dedup"
    /\ ~IsDuplicate(Visible(s), DedupKey(Cur(s), produto_obj[s]))
    /\ pc' = [pc EXCEPT ![s] = "flush"]
    /\ UNCHANGED <<dbVars, payload, produto_obj, sessVars, reportVars, out, note,
                   faults, snap>>

\* Mutant: a lookup that raises fails the record.
FaultDedupAborts(s) ==
    /\ pc[s] = "dedup"
    /\ Inject
    /\ RecordFails(s, "storage fault", "dedup")
    /\ UNCHANGED <<dbVars, payload, sessVars, snap>>

\* Lines 198-200: the lookup raises; the record goes on to the insertion.
FaultDedup(s) ==
    /\ pc[s] = "dedup"
    /\ Inject
    /\ pc' = [pc EXCEPT ![s] = "flush"]
    /\ note' = [note EXCEPT ![s] = "dedup"]
    /\ UNCHANGED <<dbVars, payload, produto_obj, sessVars, reportVars, out, snap>>

\* Mutant: flush() makes the row durable at once.
FlushAutocommit(s) ==
    /\ pc[s] = "flush"
    /\ LET item == Cur(s)
           p == produto_obj[s]
           obj == [estoque |-> Estoque(identity[s][p].estoque, item.quantidade),
                   updated_at |-> <<s, Index(s)>>]
       IN  /\ \A t \in Sessions \ {s} : p \notin DOMAIN txProdutos[t]
           /\ identity' = [identity EXCEPT ![s][p] = obj]
           /\ txProdutos' = [txProdutos EXCEPT ![s] = (p :> obj) @@ @]
           /\ txRows' = [txRows EXCEPT ![s] =
                           Append(@, NewAbastecimento(item, p, s, Index(s)))]
           /\ ledger' = Append(ledger, NewAbastecimento(item, p, s, Index(s)))
           /\ IF item.created_at # None
              THEN /\ pc' = [pc EXCEPT ![s] = "backfill"]
                   /\ UNCHANGED <<reportVars, out, note, produto_obj>>
              ELSE RecordInserted(s)
    /\ UNCHANGED <<produtos, payload, active, faults, snap>>

\* Lines 202-230: the row is built, the product's stock and updated_at are
\* changed on the loaded object, and flush() writes both.  The UPDATE waits
\* while another open transaction has updated the same product row.
Flush(s) ==
    /\ pc[s] = "flush"
    /\ LET item == Cur(s)
           p == produto_obj[s]
           obj == [estoque |-> Estoque(identity[s][p].estoque, item.quantidade),
                   updated_at |-> <<s, Index(s)>>]
       IN  /\ \A t \in Sessions \ {s} : p \notin DOMAIN txProdutos[t]
           /\ identity' = [identity EXCEPT ![s][p] = obj]
           /\ txProdutos' = [txProdutos EXCEPT ![s] = (p :> obj) @@ @]
           /\ txRows' = [txRows EXCEPT ![s] =
                           Append(@, NewAbastecimento(item, p, s, Index(s)))]
           /\ IF item.created_at # None
              THEN /\ pc' = [pc EXCEPT ![s] = "backfill"]
                   /\ UNCHANGED <<reportVars, out, note, produto_obj>>
              ELSE RecordInserted(s)
    /\ UNCHANGED <<dbVars, payload, active, faults, snap>>

\* flush() raises: the session rolls its transaction back, drops what it
\* had loaded and stays inactive; the record fails.
FaultFlush(s) ==
    /\ pc[s] = "flush"
    /\ Inject
    /\ txRows' = [txRows EXCEPT ![s] = <<>>]
    /\ txProdutos' = [txProdutos EXCEPT ![s] = Empty]
    /\ identity' = [identity EXCEPT ![s] = Empty]
    /\ active' = [active EXCEPT ![s] = FALSE]
    /\ RecordFails(s, "storage fault", "flush")
    /\ UNCHANGED <<dbVars, payload, snap>>

\* Mutant: the UPDATE is not restricted to the row just inserted; it also
\* reaches the committed rows of the same product.
BackfillByProduto(s) ==
    /\ pc[s] = "backfill"
    /\ txRows' = [txRows EXCEPT ![s][Len(txRows[s])].created_at = Cur(s).created_at]
    /\ ledger' = [k \in DOMAIN ledger |->
                    IF ledger[k].produto_id = produto_obj[s]
                    THEN [ledger[k] EXCEPT !.created_at = Cur(s).created_at]
                    ELSE ledger[k]]
    /\ RecordInserted(s)
    /\ UNCHANGED <<produtos, payload, identity, txProdutos, active, faults, snap>>

\* Lines 233-242: the UPDATE sets created_at of the row just inserted.
Backfill(s) ==
    /\ pc[s] = "backfill"
    /\ txRows' = [txRows EXCEPT ![s][Len(txRows[s])].created_at = Cur(s).created_at]
    /\ RecordInserted(s)
    /\ UNCHANGED <<dbVars, payload, identity, txProdutos, active, faults, snap>>

\* The UPDATE raises: the record fails; the transaction keeps what the
\* flush wrote.
FaultBackfill(s) ==
    /\ pc[s] = "backfill"
    /\ Inject
    /\ RecordFails(s, "storage fault", "backfill")
    /\ UNCHANGED <<dbVars, payload, sessVars, snap>>

EndSession(s) ==
    /\ txRows' = [txRows EXCEPT ![s] = <<>>]
    /\ txProdutos' = [txProdutos EXCEPT ![s] = Empty]
    /\ identity' = [identity EXCEPT ![s] = Empty]
    /\ UNCHANGED <<payload, produto_obj, active, reportVars, out, snap>>

\* Lines 246-247 and 251: commit, and the report is returned.
Commit(s) ==
    /\ pc[s] = "finish"
    /\ CommitDecision(inserted[s])
    /\ active[s]
    /\ ledger' = ledger \o txRows[s]
    /\ produtos' = [p \in Products |->
                      IF p \in DOMAIN txProdutos[s] THEN txProdutos[s][p]
                      ELSE produtos[p]]
    /\ pc' = [pc EXCEPT ![s] = "committed"]
    /\ EndSession(s)
    /\ UNCHANGED <<faults, note>>

\* Lines 246-247 and 252-254: commit() on an inactive session raises; the
\* handler rolls back and answers 500.
CommitRaises(s) ==
    /\ pc[s] = "finish"
    /\ CommitDecision(inserted[s])
    /\ ~active[s]
    /\ pc' = [pc EXCEPT ![s] = "failed"]
    /\ EndSession(s)
    /\ UNCHANGED <<dbVars, faults, note>>

\* Lines 248-251: nothing inserted, rollback, and the report is returned.
Rollback(s) ==
    /\ pc[s] = "finish"
    /\ ~CommitDecision(inserted[s])
    /\ pc' = [pc EXCEPT ![s] = "rolled_back"]
    /\ EndSession(s)
    /\ UNCHANGED <<dbVars, faults, note>>

\* Lines 252-254: the commit or the rollback raises; the handler rolls back
\* and answers 500.  Nothing of the transaction is committed.  note keeps
\* that the fault was raised by the final statement.
FaultFinish(s) ==
    /\ pc[s] = "finish"
    /\ Inject
    /\ pc' = [pc EXCEPT ![s] = "failed"]
    /\ note' = [note EXCEPT ![s] = "finish"]
    /\ EndSession(s)
    /\ UNCHANGED dbVars

\* The session provider (app.db.database.get_db_session) is outside the
\* sources at hand.  As the specification states it (section 5), a call that
\* is cancelled leaves its session with the uncommitted work rolled back.
SessionTeardown(s) == EndSession(s)

\* Lines 139, 144, 187, 230 and 234: the call is cancelled while it waits for
\* the storage at a record.  CancelledError is no Exception: neither the
\* record's except clause (line 243) nor the handler's (line 252) catches it,
\* the handler neither commits nor rolls back, and the session provider ends
\* the session.
Cancel(s) ==
    /\ \/ pc[s] \in {"dedup", "flush", "backfill"}
       \/ pc[s] = "resolve" /\ TouchesStorage(Cur(s))
    /\ pc' = [pc EXCEPT ![s] = "cancelled"]
    /\ SessionTeardown(s)
    /\ UNCHANGED <<dbVars, faults, note>>

Step(s) ==
    \/ ResolveFound(s)
    \/ ResolveNotFound(s)
    \/ ResolveRaises(s)
    \/ DedupHit(s)
    \/ DedupMiss(s)
    \/ Flush(s)
    \/ Backfill(s)
    \/ Commit(s)
    \/ CommitRaises(s)
    \/ Rollback(s)

Fault(s) ==
    \/ FaultResolve(s)
    \/ FaultDedup(s)
    \/ FaultFlush(s)
    \/ FaultBackfill(s)
    \/ FaultFinish(s)

\* Calls one after another, with storage faults.
Next == \E s \in Sessions : Begin(s) \/ Step(s) \/ Fault(s)

Spec == Init /\ [][Next]_vars

\* Calls that overlap, with storage faults.
NextConc == \E s \in Sessions : BeginConc(s) \/ Step(s) \/ Fault(s)

SpecConc == Init /\ [][NextConc]_vars

\* Calls one after another that may be cancelled, with storage faults.
NextCancel == \E s \in Sessions : BeginAfter(s) \/ Step(s) \/ Fault(s) \/ Cancel(s)

SpecCancel == Init /\ [][NextCancel]_vars

\* One call with a longer batch, with storage faults.
NextOne == \E s \in Sessions : BeginOne(s) \/ Step(s) \/ Fault(s)

SpecOne == Init /\ [][NextOne]_vars

\* ------------------------------------------------------------- claims
RECURSIVE SumQty(_, _)
\* The sum of the quantities of the rows that reference product p.
SumQty(rows, p) ==
    IF rows = <<>> THEN 0
    ELSE (IF Head(rows).produto_id = p THEN Head(rows).quantidade ELSE 0)
         + SumQty(Tail(rows), p)

Range(f) == { f[i] : i \in DOMAIN f }

\* The logical event a record stands for, and the one a row records.
EventOf(item) ==
    <<ResolveProduto(item), UsuarioUuid(item), item.quantidade,
      item.custo_unitario, TotalCusto(item), item.created_at>>

EventOfRow(row) ==
    <<row.produto_id, row.usuario_id, row.quantidade, row.custo_unitario,
      row.total_custo, row.created_at>>

\* Committed rows built from record i of call s; committed rows of an event.
RowsOf(s, i) == { k \in DOMAIN ledger : ledger[k].origin = <<s, i>> }
RowsOfEvent(e) == { k \in DOMAIN ledger : EventOfRow(ledger[k]) = e }

\* No storage fault hit a record of call s.
NoFault(s) == \A i \in DOMAIN out[s] : out[s][i].fault = "none"

TokenAccepted(s, item) ==
    item.local_id # None => item.local_id \in Range(accepted[s])

\* C1: without storage faults, when a call inserted and committed a record
\* that carries a timestamp and a later call submits a record of the same
\* logical event, the later call skips it as a duplicate and commits no row
\* for it; the ledger holds exactly one row of the event, the product's stock
\* counts each committed row once, and both calls accepted the token.
C1_IdempotentAcrossCalls ==
    \A s1 \in Sessions : \A s2 \in Sessions :
        (s1 < s2 /\ pc[s1] = "committed" /\ Returned(s2) /\ faults = 0) =>
        \A i \in DOMAIN payload[s1] : \A j \in DOMAIN payload[s2] :
            LET a == payload[s1][i]
                b == payload[s2][j]
                p == ResolveProduto(a)
            IN  ( /\ out[s1][i].result = "inserted"
                  /\ a.created_at # None
                  /\ ResolveProduto(b) # None
                  /\ EventOf(a) = EventOf(b) ) =>
                /\ out[s2][j].result = "duplicate"
                /\ RowsOf(s2, j) = {}
                /\ Cardinality(RowsOfEvent(EventOf(a))) = 1
                /\ produtos[p].estoque = InitEstoque(p) + SumQty(ledger, p)
                /\ TokenAccepted(s1, a)
                /\ TokenAccepted(s2, b)

\* Call 1 inserted Base; call 2 sent the same event under another token and
\* through the product code, and accepted it as a duplicate.
C1_Witness ==
    /\ pc[1] = "committed" /\ Returned(2) /\ faults = 0
    /\ payload[1] = <<Base>>
    /\ Len(payload[2]) = 1
    /\ payload[2][1].local_id = "L2"
    /\ EventOf(payload[2][1]) = EventOf(Base)
    /\ out[2][1].result = "duplicate"
    /\ accepted[1] = <<"L1">> /\ accepted[2] = <<"L2">>
    /\ Len(ledger) = 1

Failed(s, i) == out[s][i].result \in {"not_found", "error"}

RECURSIVE InsertedQty(_, _, _)
\* The quantities of the first n records of call s that were inserted for p.
InsertedQty(s, p, n) ==
    IF n = 0 THEN 0
    ELSE (IF out[s][n].result = "inserted" /\ ResolveProduto(payload[s][n]) = p
          THEN payload[s][n].quantidade ELSE 0)
         + InsertedQty(s, p, n - 1)

RECURSIVE CommittedQty(_, _)
\* The quantities inserted for p by the committed calls among 1..k.
CommittedQty(p, k) ==
    IF k = 0 THEN 0
    ELSE (IF pc[k] = "committed" THEN InsertedQty(k, p, Len(out[k])) ELSE 0)
         + CommittedQty(p, k - 1)

\* C3: a record's effects are durable together and only when it is counted as
\* inserted: a committed row comes from a record reported inserted by a
\* committed call, such a record has exactly one committed row carrying its
\* claimed timestamp, and the committed stock counts the inserted records
\* of the committed calls and nothing else.
C3_PerRecordAtomicity ==
    /\ \A s \in Sessions : \A i \in DOMAIN out[s] :
          IF pc[s] = "committed" /\ out[s][i].result = "inserted"
          THEN /\ Cardinality(RowsOf(s, i)) = 1
               /\ \A k \in RowsOf(s, i) :
                     ledger[k].created_at =
                        IF payload[s][i].created_at # None
                        THEN payload[s][i].created_at ELSE ServerNow
          ELSE RowsOf(s, i) = {}
    /\ \A p \in Products :
          produtos[p].estoque = InitEstoque(p) + CommittedQty(p, MaxCalls)

Latest(s) == \A t \in Sessions : t > s => pc[t] = "idle"

\* C5: a call that returns its report committed when it had inserted at
\* least one record and rolled back otherwise; inserted counts the inserted
\* records; a call that inserted nothing leaves the committed ledger and the
\* committed products (stock and updated_at) as they were when it began,
\* and still accepts the token of every duplicate it detected.
C5_CommitDecision ==
    \A s \in Sessions :
        /\ pc[s] = "committed" => inserted[s] > 0
        /\ pc[s] = "rolled_back" => inserted[s] = 0
        /\ Returned(s) =>
              /\ inserted[s] =
                    Cardinality({ i \in DOMAIN out[s] : out[s][i].result = "inserted" })
              /\ \A i \in DOMAIN out[s] :
                    out[s][i].result = "duplicate" => TokenAccepted(s, payload[s][i])
        /\ (Returned(s) /\ inserted[s] = 0 /\ Latest(s)) =>
              /\ ledger = snap[s].ledger
              /\ produtos = snap[s].produtos
        /\ (pc[s] = "committed" /\ Latest(s)) =>
              Len(ledger) >= Len(snap[s].ledger) + inserted[s]

\* The second call holds a duplicate of a committed row and a record whose
\* created_at update failed after its flush: nothing inserted, rolled back,
\* the duplicate's token accepted, the committed state untouched.
C5_Witness ==
    /\ pc[1] = "committed" /\ pc[2] = "rolled_back"
    /\ Len(payload[2]) = 2
    /\ out[2][1].result = "duplicate"
    /\ out[2][2].fault = "backfill"
    /\ accepted[2] = <<payload[2][1].local_id>>
    /\ inserted[2] = 0
    /\ Len(ledger) = 1 /\ ledger = snap[2].ledger /\ produtos = snap[2].produtos

RECURSIVE ExpectedAccepted(_, _)
\* The tokens of the first n records of call s that were inserted or skipped
\* as duplicates, in order.
ExpectedAccepted(s, n) ==
    IF n = 0 THEN <<>>
    ELSE IF /\ out[s][n].result \in {"inserted", "duplicate"}
            /\ payload[s][n].local_id # None
         THEN Append(ExpectedAccepted(s, n - 1), payload[s][n].local_id)
         ELSE ExpectedAccepted(s, n - 1)

\* The row records the event of the record (any creation time when the
\* record claims none).
MatchesRecord(row, item) ==
    /\ row.produto_id = ResolveProduto(item)
    /\ row.usuario_id = UsuarioUuid(item)
    /\ row.quantidade = item.quantidade
    /\ row.custo_unitario = item.custo_unitario
    /\ row.total_custo = TotalCusto(item)
    /\ item.created_at # None => row.created_at = item.created_at

\* C6: in a call that returned its report, accepted lists exactly the tokens
\* of the records that were inserted or detected as duplicates (none of a
\* conflict), and for each of them the committed ledger holds a row that
\* matches the record's composite key.
C6_AcceptedDurable ==
    \A s \in Sessions :
        Returned(s) =>
            /\ accepted[s] = ExpectedAccepted(s, Len(out[s]))
            /\ \A i \in DOMAIN out[s] :
                  ( /\ out[s][i].result \in {"inserted", "duplicate"}
                    /\ payload[s][i].local_id # None ) =>
                  \E k \in DOMAIN ledger : MatchesRecord(ledger[k], payload[s][i])

\* A call that returned with an inserted record, a duplicate of it and a
\* conflict in between, each carrying a token.
C6_Witness ==
    /\ pc[1] = "committed"
    /\ Len(payload[1]) = 2
    /\ out[1][1].result = "inserted" /\ out[1][2].result = "duplicate"
    /\ accepted[1] = <<"L1", "L2">>
    /\ pc[2] = "rolled_back"
    /\ Len(payload[2]) = 2
    /\ out[2][1].result = "error" /\ payload[2][1].local_id = "L1"
    /\ out[2][2].result = "duplicate"
    /\ accepted[2] = <<payload[2][2].local_id>>

\* C7: the duplicate lookup is reached only for a record with a timestamp; a
\* record without one whose product resolves is never a duplicate, and in a
\* call that returned without storage faults it is inserted and committed
\* as a row of its own with the server's creation time; without storage
\* faults the stock counts every inserted record.
C7_NoTimestampAlwaysNew ==
    /\ \A s \in Sessions :
          /\ pc[s] = "dedup" => Cur(s).created_at # None
          /\ \A i \in DOMAIN out[s] :
                ( /\ payload[s][i].created_at = None
                  /\ ResolveProduto(payload[s][i]) # None ) =>
                /\ out[s][i].result # "duplicate"
                /\ (Returned(s) /\ NoFault(s)) =>
                      /\ out[s][i].result = "inserted"
                      /\ pc[s] = "committed"
                      /\ Cardinality(RowsOf(s, i)) = 1
                      /\ \A k \in RowsOf(s, i) :
                            /\ ledger[k].created_at = ServerNow
                            /\ ledger[k].quantidade = payload[s][i].quantidade
    /\ faults = 0 =>
          \A p \in Products :
             produtos[p].estoque = InitEstoque(p) + CommittedQty(p, MaxCalls)

\* The same record without a timestamp twice in one batch and once more in a
\* later call: three rows, three increments.
C7_Witness ==
    /\ pc[1] = "committed" /\ pc[2] = "committed" /\ faults = 0
    /\ payload[1] = <<[Base EXCEPT !.created_at = None],
                      [Base EXCEPT !.created_at = None]>>
    /\ payload[2] = <<[Base EXCEPT !.created_at = None]>>
    /\ Len(ledger) = 3
    /\ \A k \in DOMAIN ledger : EventOfRow(ledger[k]) = EventOfRow(ledger[1])
    /\ produtos["id1"].estoque = InitEstoque("id1") + 3 * Base.quantidade

\* C8: when overlapping calls have all committed without storage faults,
\* the committed stock of every product is its initial stock plus the
\* quantities of all the records they inserted for it.
C8_NoLostUpdate ==
    (faults = 0 /\ \A s \in Sessions : pc[s] = "committed") =>
        \A p \in Products :
            produtos[p].estoque = InitEstoque(p) + CommittedQty(p, MaxCalls)

\* C9: without storage faults, no two committed rows record the same logical
\* event with a claimed timestamp, also when the calls that submit it overlap.
C9_ExactlyOnce ==
    faults = 0 =>
        \A k1 \in DOMAIN ledger : \A k2 \in DOMAIN ledger :
            ( /\ k1 # k2
              /\ ledger[k1].created_at # ServerNow ) =>
            EventOfRow(ledger[k1]) # EventOfRow(ledger[k2])

\* C10: every entry of conflicts carries a reason, the token of the record
\* it reports and a diagnostic message.
C10_ConflictEntries ==
    \A s \in Sessions : \A k \in DOMAIN conflicts[s] :
        /\ {"reason", "local_id", "message"} \subseteq DOMAIN conflicts[s][k]
        /\ conflicts[s][k].reason \in {"produto_nao_encontrado", "erro_interno"}

\* C11: a storage fault raised while one record is processed never makes
\* the call end in a hard failure: a call whose final commit or rollback did
\* not itself fault returns its report, with an outcome for every record; and
\* after a hard failure nothing of the batch is durable.
C11_FaultPropagation ==
    \A s \in Sessions :
        /\ (Ended(s) /\ note[s] # "finish") =>
               /\ Returned(s)
               /\ Len(out[s]) = Len(payload[s])
        /\ pc[s] = "failed" =>
               /\ \A i \in DOMAIN payload[s] : RowsOf(s, i) = {}
               /\ Latest(s) => /\ ledger = snap[s].ledger
                               /\ produtos = snap[s].produtos

\* Rows built from record i of call s, committed or still in its transaction.
RowsBuilt(s, i) ==
    { r \in Range(ledger) \cup Range(txRows[s]) : r.origin = <<s, i>> }

\* The catalog holds a product with this identifier / with this code.
IdMatches(item) == item.produto_id \in Products
CodeMatches(item) == \E p \in Products : Codigo(p) = item.produto_codigo

\* C12: a record whose identifier names a product is booked on that product,
\* whatever its code says; a record whose identifier is absent, malformed or
\* unknown is booked on the product its code names; a malformed identifier
\* raises nothing; and a record no storage fault hit is reported
\* produto_nao_encontrado exactly when neither path yields a product.
C12_ResolutionPrecedence ==
    \A s \in Sessions : \A i \in DOMAIN out[s] :
        LET item == payload[s][i]
        IN  /\ \A r \in RowsBuilt(s, i) :
                   IF IdMatches(item)
                   THEN r.produto_id = item.produto_id
                   ELSE Codigo(r.produto_id) = item.produto_codigo
            /\ out[s][i].fault = "none" =>
                   /\ out[s][i].result # "error"
                   /\ out[s][i].result = "not_found"
                          <=> (~IdMatches(item) /\ ~CodeMatches(item))

\* One committed call booked a record by its identifier although its code
\* names another product, booked a record with a malformed identifier by its
\* code, and reported an unknown product.
C12_Witness ==
    \E s \in Sessions :
        /\ pc[s] = "committed"
        /\ \E i \in DOMAIN payload[s], j \in DOMAIN payload[s],
              k \in DOMAIN payload[s] :
               /\ IdMatches(payload[s][i])
               /\ CodeMatches(payload[s][i])
               /\ Codigo(payload[s][i].produto_id) # payload[s][i].produto_codigo
               /\ RowsOf(s, i) # {}
               /\ payload[s][j].produto_id # None
               /\ ~WellFormed(payload[s][j].produto_id)
               /\ RowsOf(s, j) # {}
               /\ out[s][k].result = "not_found"
               /\ out[s][k].fault = "none"

\* C13: every row built from a record stores total = quantity x unit cost,
\* and total_custo = the record's total_custo when it supplies one, else the
\* same product.
C13_TotalDefault ==
    \A s \in Sessions : \A i \in DOMAIN payload[s] :
        \A r \in RowsBuilt(s, i) :
            LET item == payload[s][i]
            IN  /\ r.total = item.quantidade * item.custo_unitario
                /\ r.total_custo =
                      IF item.total_custo = <<>>
                      THEN item.quantidade * item.custo_unitario
                      ELSE item.total_custo[1]

\* One call committed a row with a supplied total_custo that differs from
\* quantity x unit cost, and a row with the default.
C13_Witness ==
    \E s \in Sessions :
        /\ pc[s] = "committed"
        /\ \E i \in DOMAIN payload[s], j \in DOMAIN payload[s] :
               /\ payload[s][i].total_custo # <<>>
               /\ \E k \in RowsOf(s, i) :
                      /\ ledger[k].total_custo = payload[s][i].total_custo[1]
                      /\ ledger[k].total_custo # ledger[k].total
               /\ payload[s][j].total_custo = <<>>
               /\ \E k \in RowsOf(s, j) : ledger[k].total_custo = ledger[k].total

\* C14: when a call is cancelled while it processes its batch, after any
\* number of insertions and before its commit, no ledger row of the batch is
\* committed, and the committed ledger and products are what they were when
\* the call began: what earlier calls committed is unchanged.
C14_CancelRollsBack ==
    \A s \in Sessions :
        pc[s] = "cancelled" =>
            /\ \A i \in DOMAIN payload[s] : RowsOf(s, i) = {}
            /\ Latest(s) => /\ ledger = snap[s].ledger
                            /\ produtos = snap[s].produtos

\* A call that had inserted a record was cancelled after an earlier call
\* had committed a row.
C14_Witness ==
    \E s \in Sessions : \E t \in Sessions :
        /\ pc[s] = "cancelled"
        /\ inserted[s] > 0
        /\ t < s
        /\ pc[t] = "committed"
        /\ ledger # <<>>
        /\ ledger = snap[s].ledger

\* C15: a record whose duplicate lookup raised a storage error, and that no
\* other fault hit, is not a conflict: it is inserted, and when its call
\* commits it has its own committed row and its token is accepted, also when
\* an equal row was committed before.
C15_BestEffortDedup ==
    \A s \in Sessions : \A i \in DOMAIN out[s] :
        out[s][i].fault = "dedup" =>
            /\ out[s][i].result = "inserted"
            /\ inserted[s] > 0
            /\ pc[s] = "committed" =>
                   /\ Cardinality(RowsOf(s, i)) = 1
                   /\ TokenAccepted(s, payload[s][i])

\* The lookup of a record raised in the second call although the first call
\* had committed the same event: two rows of the event, two increments.
C15_Witness ==
    /\ pc[1] = "committed"
    /\ pc[2] = "committed"
    /\ payload[1] = <<Base>>
    /\ payload[2] = <<Base>>
    /\ out[2][1].fault = "dedup"
    /\ inserted[2] = 1
    /\ Cardinality(RowsOfEvent(EventOf(Base))) = 2
    /\ produtos["id1"].estoque = InitEstoque("id1") + 2 * Base.quantidade
    /\ accepted[2] = <<Base.local_id>>

\* A step keeps every committed row where it was and as it was.
LedgerKept ==
    /\ Len(ledger') >= Len(ledger)
    /\ SubSeq(ledger', 1, Len(ledger)) = ledger

\* A step changes a row of an open transaction only by setting created_at of
\* the row the call has just inserted to the timestamp its record claims.
OnlyBackfill(s) ==
    \A k \in DOMAIN txRows[s] \cap DOMAIN txRows'[s] :
        txRows'[s][k] # txRows[s][k] =>
            /\ pc[s] = "backfill"
            /\ k = Len(txRows[s])
            /\ txRows[s][k].origin = <<s, Index(s)>>
            /\ txRows'[s][k] =
                  [txRows[s][k] EXCEPT !.created_at = Cur(s).created_at]

\* C16: no step deletes a committed ledger row or changes a field of one;
\* the only change to a row is the created_at of the row a call has just
\* inserted, made in the call's own transaction before the row is committed.
C16_LedgerImmutable ==
    [][LedgerKept /\ \A s \in Sessions : OnlyBackfill(s)]_vars

\* The second call committed a row of its own, with the claimed timestamp
\* back-filled, behind the rows the first call had committed.
C16_Witness ==
    /\ pc[1] = "committed"
    /\ pc[2] = "committed"
    /\ snap[2].ledger # <<>>
    /\ Len(ledger) > Len(snap[2].ledger)
    /\ SubSeq(ledger, 1, Len(snap[2].ledger)) = snap[2].ledger
    /\ \E k \in RowsOf(2, 1) : ledger[k].created_at = payload[2][1].created_at
    /\ \E k \in RowsOf(1, 1) : ledger[k].created_at = payload[1][1].created_at

\* Lines 129-251 as one function of the storage the call starts from and
\* the batch, when no statement raises: the loop from record i on, with
\* db = [rows, estoque, inserted, accepted, conflicts].
RECURSIVE RunBatch(_, _, _)
RunBatch(db, batch, i) ==
    IF i > Len(batch) THEN db
    ELSE LET item == batch[i]
             p == ResolveProduto(item)
         IN  IF p = None
             THEN RunBatch([db EXCEPT !.conflicts =
                                Append(@, NotFoundConflict(item))], batch, i + 1)
             ELSE IF /\ item.created_at # None
                     /\ IsDuplicate(db.rows, DedupKey(item, p))
             THEN RunBatch([db EXCEPT !.accepted = Accept(@, item)], batch, i + 1)
             ELSE RunBatch(
                    [db EXCEPT
                       !.rows = Append(@,
                          [NewAbastecimento(item, p, 0, i) EXCEPT
                             !.created_at = IF item.created_at # None
                                            THEN item.created_at
                                            ELSE ServerNow]),
                       !.estoque[p] = Estoque(@, item.quantidade),
                       !.inserted = @ + 1,
                       !.accepted = Accept(@, item)],
                    batch, i + 1)

\* Lines 246-251: what the call leaves committed and reports, from the
\* storage of snapshot sn.
RunCall(sn, batch) ==
    LET start == [rows |-> sn.ledger,
                  estoque |-> [p \in Products |-> sn.produtos[p].estoque],
                  inserted |-> 0, accepted |-> <<>>, conflicts |-> <<>>]
        end == RunBatch(start, batch, 1)
    IN  IF CommitDecision(end.inserted) THEN end
        ELSE [end EXCEPT !.rows = start.rows, !.estoque = start.estoque]

\* What call s has left committed and reported.
Actual(s) ==
    [rows |-> ledger, estoque |-> [p \in Products |-> produtos[p].estoque],
     inserted |-> inserted[s], accepted |-> accepted[s],
     conflicts |-> conflicts[s]]

\* The elements of a sequence with their numbers of occurrences.
BagOf(seq) ==
    [x \in Range(seq) |-> Cardinality({ k \in DOMAIN seq : seq[k] = x })]

\* A row without its identifier, with or without its note.
RowContent(r, withNote) ==
    <<r.produto_id, r.usuario_id, r.quantidade, r.custo_unitario, r.total,
      r.total_custo, r.created_at, IF withNote THEN r.observacao ELSE None>>

\* What order independence compares: the ledger's contents up to row
\* identifiers, the stock, the count, the set of tokens and the conflicts.
Summary(db, withNote) ==
    [ledger |-> BagOf([k \in DOMAIN db.rows |-> RowContent(db.rows[k], withNote)]),
     estoque |-> db.estoque,
     inserted |-> db.inserted,
     accepted |-> Range(db.accepted),
     conflicts |-> BagOf(db.conflicts)]

\* The batches that hold the records of batch in another order.
Permuted(batch) ==
    { [k \in DOMAIN batch |-> batch[f[k]]] : f \in Permutations(DOMAIN batch) }

\* Two records of the batch submit the same event with a timestamp and
\* different notes.
ClashingNotes(batch) ==
    \E i \in DOMAIN batch : \E j \in DOMAIN batch :
        /\ batch[i].created_at # None
        /\ ResolveProduto(batch[i]) # None
        /\ EventOf(batch[i]) = EventOf(batch[j])
        /\ batch[i].observacao # batch[j].observacao

\* The call returned its report, no storage fault hit it, no call followed.
Settled(s) == Returned(s) /\ NoFault(s) /\ Latest(s)

\* C17 as stated: without storage faults, every permutation of the batch,
\* run from the storage the call started from, leaves the same ledger
\* contents up to row identifiers, the same stock, the same inserted count,
\* the same set of accepted tokens and the same conflicts as the call did.
C17_OrderIndependent ==
    \A s \in Sessions :
        Settled(s) =>
            \A b \in Permuted(payload[s]) :
                Summary(RunCall(snap[s], b), TRUE) = Summary(Actual(s), TRUE)

\* C17 amended: the same, except that the note (observacao) of a row is left
\* out of the comparison when the batch submits the row's event several
\* times with different notes; and what the call left is what the handler
\* computes from the batch in the order given.
C17_OrderIndependentButNote ==
    \A s \in Sessions :
        Settled(s) =>
            /\ Summary(RunCall(snap[s], payload[s]), TRUE) = Summary(Actual(s), TRUE)
            /\ \A b \in Permuted(payload[s]) :
                   Summary(RunCall(snap[s], b), ~ClashingNotes(payload[s]))
                     = Summary(Actual(s), ~ClashingNotes(payload[s]))

\* A committed call whose batch submitted one event twice with different
\* notes, next to a record of another event.
C17_Witness ==
    \E s \in Sessions :
        /\ Settled(s)
        /\ pc[s] = "committed"
        /\ ClashingNotes(payload[s])
        /\ Len(payload[s]) = 3
        /\ inserted[s] = 2
        /\ \E k \in DOMAIN ledger : ledger[k].observacao # None

\* Record i of call s is the first of its batch to submit its event.
FirstOfEvent(s, i) ==
    \A h \in 1..(i - 1) : EventOf(payload[s][h]) # EventOf(payload[s][i])

\* C18: when a batch submits an event with a timestamp several times and no
\* committed row matched it before the call, a call without storage faults
\* inserts the first of them and skips every later one as a duplicate of the
\* row it has just inserted: the call commits one row of the event, raises
\* the stock once, and accepts the tokens of all of them.
C18_DuplicatesInBatch ==
    \A s \in Sessions :
        Settled(s) =>
            \A i \in DOMAIN payload[s] : \A j \in DOMAIN payload[s] :
                LET a == payload[s][i]
                    b == payload[s][j]
                IN  ( /\ i < j
                      /\ FirstOfEvent(s, i)
                      /\ a.created_at # None
                      /\ ResolveProduto(a) # None
                      /\ EventOf(a) = EventOf(b)
                      /\ \A k \in DOMAIN snap[s].ledger :
                             EventOfRow(snap[s].ledger[k]) # EventOf(a) ) =>
                    /\ out[s][i].result = "inserted"
                    /\ out[s][j].result = "duplicate"
                    /\ pc[s] = "committed"
                    /\ RowsOfEvent(EventOf(a)) = RowsOf(s, i)
                    /\ Cardinality(RowsOf(s, i)) = 1
                    /\ produtos[ResolveProduto(a)].estoque =
                          snap[s].produtos[ResolveProduto(a)].estoque
                            + InsertedQty(s, ResolveProduto(a), Len(payload[s]))
                    /\ TokenAccepted(s, a)
                    /\ TokenAccepted(s, b)

\* A call committed a batch of three records of one event under two tokens:
\* one row, one increment, both tokens accepted.
C18_Witness ==
    \E s \in Sessions :
        /\ Settled(s)
        /\ Len(payload[s]) = 3
        /\ \A i \in DOMAIN payload[s] :
               /\ EventOf(payload[s][i]) = EventOf(Base)
               /\ out[s][i].result = IF i = 1 THEN "inserted" ELSE "duplicate"
        /\ Len(ledger) = 1
        /\ produtos["id1"].estoque = InitEstoque("id1") + Base.quantidade
        /\ Range(accepted[s]) = {"L1", "L2"}

\* The records of call s that were skipped as duplicates.
Skipped(s) == { i \in DOMAIN out[s] : out[s][i].result = "duplicate" }

\* C19: in a call that returns its report every record has exactly one
\* outcome: inserted + number of conflicts + number of records skipped as
\* duplicates = number of records; and accepted is no longer than inserted +
\* skipped.
C19_OneOutcome ==
    \A s \in Sessions :
        Returned(s) =>
            /\ inserted[s] + Len(conflicts[s]) + Cardinality(Skipped(s))
                  = Len(payload[s])
            /\ Len(accepted[s]) <= inserted[s] + Cardinality(Skipped(s))

\* A returned call with an insertion, a conflict and a skipped duplicate,
\* one of them without a token.
C19_Witness ==
    \E s \in Sessions :
        /\ Returned(s)
        /\ inserted[s] = 1
        /\ Len(conflicts[s]) = 1
        /\ Cardinality(Skipped(s)) = 1
        /\ Len(payload[s]) = 3
        /\ Len(accepted[s]) = 1

====
